---- MODULE Spec2Model ----
(***************************************************************************)
(* State-machine model of the agent core of FringeNet/mindcraft:           *)
(*   - GoalSystem          (src/src/agent/goal_system.js, lines 1-208)     *)
(*   - EnhancedNavigation  (src/src/agent/enhanced_navigation.js)          *)
(* Each public method is one action; helper methods are operators that are *)
(* computed the way the JavaScript computes them.                          *)
(***************************************************************************)
EXTENDS Integers, Sequences, FiniteSets, TLC

(***************************************************************************)
(* Bounds of the model (not program constants).                            *)
(***************************************************************************)
\* Date.now() takes the values 0..MaxTime (milliseconds).
MaxTime == 1
\* addSubGoal is taken only while fewer than MaxSub subgoals are collected.
MaxSub == 2
\* completeGoal, failGoal and adaptStrategy are taken only while the list
\* they push on (completedGoals, failedGoals, strategyAdaptations) is shorter.
MaxLog == 1

(***************************************************************************)
(* Program constants.                                                      *)
(***************************************************************************)
\* goal_system.js:88   if (goal.attempts > 3)
AttemptThreshold == 3
\* goal_system.js:61   forced main-goal progress when no subgoal is active
FullProgress == 100

\* Bound on the number of moveToLocation calls made on one navigator.
MaxExec == 2
\* Bound on the number of waypoints the pathfinder returns.
MaxWaypoints == 3
\* Cap on stuckDetection.stuckTime (milliseconds).
MaxStuckTime == 6000

\* The radius of the largest circle a scan walks.
MaxRadius == 5
\* The number of levels below and above the bot a scan walks in a column.
HeightRange == 2
\* Cap on the use-count direct rememberPath calls build up.
MaxUseCount == 2

\* stuckDetection.stuckThreshold set by the constructor.
StuckThreshold == 5000
\* The amount updateNavigationProgress adds to stuckTime per stuck sample.
StuckIncrement == 1000
\* options.checkpointInterval || 5
DefaultCheckpointInterval == 5
\* updateInterval: 1000 in moveToLocation, options.updateInterval || 1000
DefaultUpdateInterval == 1000
\* if (distance > 2), in tenths of a block like the positions
Tolerance == 20

VARIABLES
    now,                  \* the value Date.now() last returned
    mainGoal,             \* this.mainGoal: <<>> is null, <<g>> is the object g
    subGoals,             \* this.subGoals
    completedGoals,       \* this.completedGoals
    failedGoals,          \* this.failedGoals
    strategyAdaptations,  \* this.strategyAdaptations
    \* EnhancedNavigation and what it shares with its collaborators
    interrupt,            \* this.bot.interrupt_code
    currentPath,          \* this.currentPath: 0 is null, e the path of call e
    hasLastPosition,      \* this.lastPosition is not null
    stuckDetection,       \* this.stuckDetection: lastProgress, stuckTime
    pathHistory,          \* this.pathHistory
    paths,                \* this.memory.paths: useCount per key, 0 is absent
    nav,                  \* the moveToLocation calls: position and locals
    \* EnhancedMemoryBank (paths, above, is its fourth table)
    locations,            \* this.locations
    regions,              \* this.regions
    landmarks,            \* this.landmarks
    spatialContext,       \* this.spatialContext and this.lastUpdate
    \* EnvironmentScanner and the world it reads
    lastScan,             \* this.lastScan
    world,                \* what this.bot.blockAt returns for each cell
    harvestable           \* the block names canHarvest(heldItem) accepts

goalVars == <<now, mainGoal, subGoals, completedGoals, failedGoals,
              strategyAdaptations>>

memVars == <<locations, regions, landmarks, spatialContext>>

scanVars == <<lastScan, world, harvestable>>

navVars == <<interrupt, currentPath, hasLastPosition, stuckDetection,
             pathHistory, paths, nav, locations, regions, landmarks,
             spatialContext, lastScan, world, harvestable>>

vars == <<now, mainGoal, subGoals, completedGoals, failedGoals,
          strategyAdaptations, interrupt, currentPath, hasLastPosition,
          stuckDetection, pathHistory, paths, nav, locations, regions,
          landmarks, spatialContext, lastScan, world, harvestable>>

(***************************************************************************)
(* Identifiers.  `goal_${Date.now()}` and                                  *)
(* `subgoal_${Date.now()}_${this.subGoals.length}` are strings built from  *)
(* the clock and the collection length; two ids are equal exactly when     *)
(* kind, clock value and length agree.                                     *)
(***************************************************************************)
MainId(t) == [kind |-> "goal", t |-> t, n |-> 0]
SubId(t, n) == [kind |-> "subgoal", t |-> t, n |-> n]
\* An id no goal ever carries.
UnknownId == [kind |-> "unknown", t |-> 0, n |-> 0]

Times == 0..MaxTime
MainIds == {MainId(t) : t \in Times}
SubIds == {SubId(t, n) : t \in Times, n \in 0..(MaxSub - 1)}
\* The ids callers pass to the operations.
ArgIds == MainIds \cup SubIds \cup {UnknownId}
\* The prerequisite / dependency lists callers pass to addSubGoal.
\* <<prerequisites, dependencies>>
NoRefs == {<< <<>>, <<>> >>}
RefPairs == {<< <<>>, <<>> >>, << <<UnknownId>>, <<>> >>,
             << <<SubId(0, 0)>>, <<>> >>, << <<>>, <<SubId(0, 0)>> >>}
\* The ids recordFailedAttempt is called with.
RetryIds == {MainId(0), SubId(0, 0), UnknownId}
\* The progress arguments callers pass to updateGoalProgress.
ProgressInputs == {45, 150}

\* The moveToLocation calls, numbered in the order they are made.
Execs == 1..MaxExec

\* Coordinates of a start or an end point, in tenths of a block: the bot
\* starts at 0.2 or 0.7 and the last waypoint is at -0.5 or 0.7.
StartPositions == {2, 7}
EndPositions == {-5, 7}
Positions == StartPositions \cup EndPositions

\* Number.parseInt-style truncation toward zero of a coordinate in tenths.
TruncPos(p) == IF p < 0 THEN -((-p) \div 10) ELSE p \div 10

\* Math.floor of a coordinate in tenths.
FloorPos(p) == p \div 10

\* The values of options.checkpointInterval || 5 the callers use.
CheckpointIntervals == {2, DefaultCheckpointInterval}

\* The options objects the callers pass: the defaults with a checkpoint
\* every 2 waypoints, and a faster monitor with digging forbidden.
NavOptions ==
    {[checkpointInterval |-> 2, updateInterval |-> DefaultUpdateInterval,
      canDig |-> "undefined"],
     [checkpointInterval |-> DefaultCheckpointInterval, updateInterval |-> 500,
      canDig |-> "false"]}

\* Distances between the bot and a checkpoint once goto has settled, in
\* tenths of a block: exactly at the tolerance, and just beyond it.
Distances == {Tolerance, Tolerance + 1}

\* Values of calculatePathProgress, in hundredths.
ProgressSamples == {0, 50}

\* this.currentPath = null
NoPath == 0

\* `${from}->${to}`
PathKey(from, to) == <<from, to>>
PathKeys == {PathKey(FloorPos(start), FloorPos(end)) :
               start \in StartPositions, end \in EndPositions}

\* this.paths[pathKey] is undefined: useCount reads as 0.
NoRecord == [useCount |-> 0, waypoints |-> NoPath]

\* The statuses other than 'success' the path search reports.
NonSuccess == {"noPath", "timeout"}

\* this.locations = {}: a table maps names to what is stored under them.
EmptyTable == [n \in {} |-> 0]

\* this.paths = {}
NoPaths == [k \in PathKeys |-> NoRecord]

\* this.spatialContext = {}, this.lastUpdate = null.  scan tells whether the
\* context incorporates scan data.
NoContext == [known |-> FALSE, scan |-> FALSE]

\* The context updateSpatialContext(bot, scanData) stores.
NewSpatialContext(scanData) == [known |-> TRUE, scan |-> scanData]

\* rememberPath on the table: the record under the key is replaced and its
\* use-count is one more than before, 1 when the key was absent.
RememberPath(table, pathKey, waypoints) ==
    [table EXCEPT ![pathKey] =
        [useCount |-> @.useCount + 1, waypoints |-> waypoints]]

\* The radii of the circles scan() walks: r = 1, 3, 5, ...
Radii == {r \in 1..MaxRadius : r % 2 = 1}

\* The cells of the world that can hold a block: on each circle the column in
\* the first direction, at the bot's level (0) and the two levels above it.
\* Every other position the scanner asks for holds no block.
Cells == Radii \X {0, 1, 2}

\* this.lastScan = null.  blocks holds, in insertion order, the entries
\* [name, instances] of environment.blocks.
NoScan == [taken |-> FALSE, blocks |-> <<>>]

\* A call that has not been made yet.  status is pathfinderPath.status, and
\* progressMonitor is TRUE while the interval timer created by the call is
\* scheduled.
IdleCall == [pc |-> "idle", outcome |-> "none", start |-> 0, end |-> 0,
             status |-> "none", waypoints |-> 0,
             updateInterval |-> DefaultUpdateInterval, canDig |-> "undefined",
             distance |-> 0, searchMovements |-> "none", gotoMovements |-> "none",
             interruptedInFlight |-> FALSE,
             checkpointInterval |-> DefaultCheckpointInterval,
             checkpoint |-> 0, progressMonitor |-> FALSE]

BaseInit ==
    /\ now = 0
    /\ mainGoal = <<>>
    /\ subGoals = <<>>
    /\ completedGoals = <<>>
    /\ failedGoals = <<>>
    /\ strategyAdaptations = <<>>
    /\ interrupt = FALSE
    /\ currentPath = NoPath
    /\ hasLastPosition = FALSE
    /\ stuckDetection = [lastProgress |-> 0, stuckTime |-> 0]
    /\ pathHistory = <<>>
    /\ paths = NoPaths
    /\ nav = [e \in Execs |-> IdleCall]
    /\ locations = EmptyTable
    /\ regions = EmptyTable
    /\ landmarks = EmptyTable
    /\ spatialContext = NoContext
    /\ lastScan = NoScan

\* The state after construction, in a world with nothing loaded around the
\* bot.
Init ==
    /\ BaseInit
    /\ world = [cell \in Cells |-> "null"]
    /\ harvestable = {}

\* The clock behind Date.now() advances between calls; several calls can
\* fall in the same millisecond.
Tick ==
    /\ now < MaxTime
    /\ now' = now + 1
    /\ UNCHANGED <<mainGoal, subGoals, completedGoals, failedGoals,
                   strategyAdaptations>>
    /\ UNCHANGED navVars

\* Date.now()
DateNow == now

(***************************************************************************)
(* GoalSystem: goal objects.  A goal is a record                           *)
(*   id, status, progress, attempts, needsStrategyRevision,                *)
(*   hasLists, prerequisites, dependencies.                                *)
(* The main goal object has no prerequisites / dependencies property       *)
(* (goal_system.js:12-22): hasLists = FALSE stands for `undefined`.        *)
(* Timestamps, descriptions, contexts and failure reasons are left out:    *)
(* no branch of the code reads them.  An entry of completedGoals or        *)
(* failedGoals is the copy {...goal}; the model keeps its id and status,   *)
(* the code reads only the length of these lists.                          *)
(***************************************************************************)
NewMainGoal(t) ==
    [id |-> MainId(t), status |-> "active", progress |-> 0, attempts |-> 0,
     needsStrategyRevision |-> FALSE, hasLists |-> FALSE,
     prerequisites |-> <<>>, dependencies |-> <<>>]

NewSubGoal(t, n, prerequisites, dependencies) ==
    [id |-> SubId(t, n), status |-> "pending", progress |-> 0, attempts |-> 0,
     needsStrategyRevision |-> FALSE, hasLists |-> TRUE,
     prerequisites |-> prerequisites, dependencies |-> dependencies]

HasMain == mainGoal # <<>>

MinOf(S) == CHOOSE x \in S : \A y \in S : x <= y

NotFound == [found |-> FALSE, main |-> FALSE, idx |-> 0]

\* findGoal with a predicate that holds of every subgoal (g.id = goalId for
\* g.id === goalId): an id that matches nothing finds the first subgoal.
FindGoalAnySub(goalId) ==
    IF HasMain /\ mainGoal[1].id = goalId
    THEN [found |-> TRUE, main |-> TRUE, idx |-> 0]
    ELSE IF subGoals = <<>> THEN NotFound
         ELSE [found |-> TRUE, main |-> FALSE, idx |-> 1]

\* findGoal(goalId): the main goal if its id matches, else the first subgoal
\* of the collection with that id, else undefined.
FindGoal(goalId) ==
    IF HasMain /\ mainGoal[1].id = goalId
    THEN [found |-> TRUE, main |-> TRUE, idx |-> 0]
    ELSE LET I == {i \in 1..Len(subGoals) : subGoals[i].id = goalId}
         IN  IF I = {} THEN NotFound
             ELSE [found |-> TRUE, main |-> FALSE, idx |-> MinOf(I)]

\* The object a findGoal result refers to.
GoalAt(loc) == IF loc.main THEN mainGoal[1] ELSE subGoals[loc.idx]

\* The main goal and the collection after the found object was replaced by g
\* (the JavaScript mutates the object in place).
PutMain(loc, g) == IF loc.main THEN <<g>> ELSE mainGoal
PutSub(loc, g) == IF loc.main THEN subGoals ELSE [subGoals EXCEPT ![loc.idx] = g]

IsActiveStatus(g) == g.status # "completed" /\ g.status # "failed"

\* The reduce of updateMainGoalProgress (goal_system.js:65-67).
RECURSIVE TotalProgress(_)
TotalProgress(sgs) ==
    IF sgs = <<>> THEN 0
    ELSE (IF Head(sgs).status = "completed" THEN FullProgress ELSE Head(sgs).progress)
         + TotalProgress(Tail(sgs))

\* Math.ceil in place of Math.floor.
MeanProgressCeil(sgs) == -((-TotalProgress(sgs)) \div Len(sgs))

\* Math.floor(totalProgress / this.subGoals.length); \div rounds down.
MeanProgress(sgs) == TotalProgress(sgs) \div Len(sgs)

\* updateMainGoalProgress() applied to main goal mg and collection sgs:
\* the main goal afterwards.
UpdateMainGoalProgress(mg, sgs) ==
    IF mg = <<>> THEN mg
    ELSE LET activeSubGoals == SelectSeq(sgs, IsActiveStatus)
         IN  IF Len(activeSubGoals) = 0
             THEN <<[mg[1] EXCEPT !.progress =
                        IF Len(sgs) > 0 THEN FullProgress ELSE mg[1].progress]>>
             ELSE <<[mg[1] EXCEPT !.progress = MeanProgress(sgs)]>>

\* adaptStrategy(goal): the adaptation record pushed and the goal afterwards.
AdaptStrategy(goal) ==
    [adaptation |-> [goalId |-> goal.id, previousAttempts |-> goal.attempts],
     goal |-> [goal EXCEPT !.needsStrategyRevision = TRUE,
                           !.status = "needs_revision"]]

\* {...goal} as kept on a history list.
Snapshot(goal) == [id |-> goal.id, status |-> goal.status]

\* A completeGoal / failGoal that leaves the collection as it is.
KeepAll(sgs, goalId) == sgs

\* this.subGoals.filter(g => g.id !== goalId)
RemoveById(sgs, goalId) ==
    LET Keep(g) == g.id # goalId IN SelectSeq(sgs, Keep)

(***************************************************************************)
(* GoalSystem: the operations.                                             *)
(***************************************************************************)
SetMainGoal ==
    LET t == DateNow IN
        /\ UNCHANGED <<now, navVars>>
        /\ mainGoal' = <<NewMainGoal(t)>>
        /\ UNCHANGED <<subGoals, completedGoals, failedGoals, strategyAdaptations>>

AddSubGoal(prerequisites, dependencies) ==
    LET t == DateNow IN
        /\ Len(subGoals) < MaxSub
        /\ UNCHANGED <<now, navVars>>
        /\ subGoals' = Append(subGoals,
                NewSubGoal(t, Len(subGoals), prerequisites, dependencies))
        /\ UNCHANGED <<mainGoal, completedGoals, failedGoals, strategyAdaptations>>

UpdateGoalProgress(goalId, progress) ==
    LET t == DateNow IN
        /\ UNCHANGED <<now, navVars>>
        /\ UNCHANGED <<completedGoals, failedGoals, strategyAdaptations>>
        /\ LET loc == FindGoal(goalId)
           IN  IF ~loc.found
               THEN UNCHANGED <<mainGoal, subGoals>>
               ELSE LET g  == [GoalAt(loc) EXCEPT !.progress = progress]
                        mg == PutMain(loc, g)
                        sg == PutSub(loc, g)
                    IN  /\ subGoals' = sg
                        /\ mainGoal' = IF mg # <<>> /\ goalId # mg[1].id
                                       THEN UpdateMainGoalProgress(mg, sg)
                                       ELSE mg

RecordFailedAttempt(goalId) ==
    LET t == DateNow IN
        /\ UNCHANGED <<now, navVars>>
        /\ UNCHANGED <<completedGoals, failedGoals>>
        /\ LET loc == FindGoal(goalId)
           IN  IF ~loc.found
               THEN UNCHANGED <<mainGoal, subGoals, strategyAdaptations>>
               ELSE LET g == [GoalAt(loc) EXCEPT !.attempts = @ + 1]
                    IN  IF g.attempts > AttemptThreshold
                        THEN /\ Len(strategyAdaptations) < MaxLog
                             /\ strategyAdaptations' =
                                  Append(strategyAdaptations, AdaptStrategy(g).adaptation)
                             /\ mainGoal' = PutMain(loc, AdaptStrategy(g).goal)
                             /\ subGoals' = PutSub(loc, AdaptStrategy(g).goal)
                        ELSE /\ mainGoal' = PutMain(loc, g)
                             /\ subGoals' = PutSub(loc, g)
                             /\ UNCHANGED strategyAdaptations

\* The common body of completeGoal and failGoal: the object gets the terminal
\* status, a copy is pushed on the history list, a subgoal is filtered out of
\* the collection, and the main goal's progress is recomputed.
FinishMain(loc, g) == PutMain(loc, g)
FinishSubs(loc, g, goalId) ==
    IF PutMain(loc, g) = <<>> \/ goalId # PutMain(loc, g)[1].id
    THEN RemoveById(PutSub(loc, g), goalId)
    ELSE PutSub(loc, g)

CompleteGoal(goalId) ==
    LET t == DateNow IN
        /\ UNCHANGED <<now, navVars>>
        /\ UNCHANGED <<failedGoals, strategyAdaptations>>
        /\ LET loc == FindGoal(goalId)
           IN  IF ~loc.found
               THEN UNCHANGED <<mainGoal, subGoals, completedGoals>>
               ELSE LET g == [GoalAt(loc) EXCEPT !.status = "completed"]
                    IN  /\ Len(completedGoals) < MaxLog
                        /\ completedGoals' = Append(completedGoals, Snapshot(g))
                        /\ subGoals' = FinishSubs(loc, g, goalId)
                        /\ mainGoal' = UpdateMainGoalProgress(
                                           FinishMain(loc, g), FinishSubs(loc, g, goalId))

FailGoal(goalId) ==
    LET t == DateNow IN
        /\ UNCHANGED <<now, navVars>>
        /\ UNCHANGED <<completedGoals, strategyAdaptations>>
        /\ LET loc == FindGoal(goalId)
           IN  IF ~loc.found
               THEN UNCHANGED <<mainGoal, subGoals, failedGoals>>
               ELSE LET g == [GoalAt(loc) EXCEPT !.status = "failed"]
                    IN  /\ Len(failedGoals) < MaxLog
                        /\ failedGoals' = Append(failedGoals, Snapshot(g))
                        /\ subGoals' = FinishSubs(loc, g, goalId)
                        /\ mainGoal' = UpdateMainGoalProgress(
                                           FinishMain(loc, g), FinishSubs(loc, g, goalId))

\* getPendingPrerequisites(goalId): [raised, list].  goal.prerequisites.filter
\* raises a TypeError when the goal has no prerequisites property.
GetPendingPrerequisites(goalId) ==
    LET loc == FindGoal(goalId)
        Pending(preReqId) ==
            /\ FindGoal(preReqId).found
            /\ GoalAt(FindGoal(preReqId)).status # "completed"
    IN  IF ~loc.found THEN [raised |-> FALSE, list |-> <<>>]
        ELSE IF ~GoalAt(loc).hasLists THEN [raised |-> TRUE, list |-> <<>>]
        ELSE [raised |-> FALSE,
              list |-> SelectSeq(GoalAt(loc).prerequisites, Pending)]

\* canStartGoal(goalId): "true", "false", or "TypeError" when it raises.
CanStartGoal(goalId) ==
    LET loc == FindGoal(goalId)
        Unmet(depId) ==
            \/ ~FindGoal(depId).found
            \/ GoalAt(FindGoal(depId)).status # "completed"
    IN  IF ~loc.found THEN "false"
        ELSE IF GetPendingPrerequisites(goalId).raised THEN "TypeError"
        ELSE IF Len(GetPendingPrerequisites(goalId).list) > 0 THEN "false"
        ELSE IF Len(SelectSeq(GoalAt(loc).dependencies, Unmet)) = 0
             THEN "true" ELSE "false"

\* A call of canStartGoal: it returns or raises and changes nothing.
CanStartGoalCall(goalId) ==
    /\ CanStartGoal(goalId) \in {"true", "false", "TypeError"}
    /\ UNCHANGED <<goalVars, navVars>>

\* getActiveSubGoals()
GetActiveSubGoals ==
    LET Shown(g) == g.status = "active" \/ g.status = "pending"
    IN  SelectSeq(subGoals, Shown)

\* getGoalSummary(): every field it reads exists on every goal object the
\* class creates, so the defaults are never taken and the call returns.
GetGoalSummary ==
    [mainGoal |-> IF HasMain
                  THEN <<[progress |-> mainGoal[1].progress,
                          status |-> mainGoal[1].status]>>
                  ELSE <<>>,
     activeSubGoals |-> [i \in 1..Len(GetActiveSubGoals) |->
                            [progress |-> GetActiveSubGoals[i].progress,
                             status |-> GetActiveSubGoals[i].status,
                             attempts |-> GetActiveSubGoals[i].attempts]],
     completedCount |-> Len(completedGoals),
     failedCount |-> Len(failedGoals),
     adaptationCount |-> Len(strategyAdaptations)]

\* A call of getGoalSummary: it returns the summary and changes nothing.
GetGoalSummaryCall ==
    /\ GetGoalSummary.completedCount = Len(completedGoals)
    /\ UNCHANGED <<goalVars, navVars>>

\* One step of the tracker and its clock, the callers drawing the arguments
\* of addSubGoal from refs, the progress values from progs and the ids of
\* recordFailedAttempt from retryIds.
GoalStep(refs, progs, retryIds) ==
    \/ Tick
    \/ SetMainGoal
    \/ \E r \in refs : AddSubGoal(r[1], r[2])
    \/ \E i \in ArgIds, p \in progs : UpdateGoalProgress(i, p)
    \/ \E i \in retryIds : RecordFailedAttempt(i)
    \/ \E i \in ArgIds : CompleteGoal(i)
    \/ \E i \in ArgIds : FailGoal(i)
    \/ \E i \in ArgIds : CanStartGoalCall(i)
    \/ GetGoalSummaryCall

\* Progress, retry and completion: subgoals are added without prerequisites
\* or dependencies.
GoalNext == GoalStep(NoRefs, ProgressInputs, RetryIds)

GoalSpec == Init /\ [][GoalNext]_vars

\* Dependency gating: subgoals are added with prerequisites and dependencies.
StartNext == GoalStep(RefPairs, {45}, {MainId(0), UnknownId})

StartSpec == Init /\ [][StartNext]_vars

\* ---------------------------------------------------------------------
\* EnhancedNavigation
\* ---------------------------------------------------------------------

\* The number of checkpoints planPathWithContext pushes:
\* for (i = 0; i < waypoints.length; i += checkpointInterval).
NumCheckpoints(waypoints, checkpointInterval) ==
    (waypoints + checkpointInterval - 1) \div checkpointInterval

\* A finally block that cancels the timer only when the body returned.
ClearIntervalOnReturn(progressMonitor, raised) ==
    IF raised THEN progressMonitor ELSE FALSE

\* finally { clearInterval(progressMonitor) }: runs on return and on raise.
ClearInterval(progressMonitor, raised) == FALSE

\* An interrupt check made once, before the loop, instead of per checkpoint.
InterruptCheckAtEntry(code, k) == code /\ k = 1

\* if (this.bot.interrupt_code) at the head of the iteration for checkpoint k.
InterruptCheck(code, k) == code

\* new pf.Movements(this.bot): canDig of a fresh movements object, which is
\* also what bot.pathfinder.movements holds.
DefaultMovements == "true"

\* if (options.canDig !== undefined) movements.canDig = options.canDig
Movements(canDig) == IF canDig = "undefined" THEN DefaultMovements ELSE canDig

\* this.bot.pathfinder.goto(goal): the movements object built from the
\* options is not handed over, the move runs under the pathfinder's own.
Goto(movements) == DefaultMovements

\* moveToLocation up to the await of the path search: the start position is
\* read and the search is requested.
MoveToLocation(e, start, options) ==
    /\ nav[e].pc = "idle"
    /\ IF e = 1 THEN TRUE ELSE nav[e - 1].pc # "idle"
    /\ nav' = [nav EXCEPT ![e] =
                 [@ EXCEPT !.pc = "planning",
                           !.start = start,
                           !.checkpointInterval = options.checkpointInterval,
                           !.updateInterval = options.updateInterval,
                           !.canDig = options.canDig,
                           !.searchMovements = Movements(options.canDig)]]
    /\ UNCHANGED <<goalVars, scanVars, memVars, interrupt, currentPath,
                   hasLastPosition, stuckDetection, pathHistory, paths>>

\* planPathWithContext after the search settles.  A rejected search raises
\* 'Failed to plan path'; a search whose status is not 'success' returns the
\* path with no waypoints; a successful one returns its waypoints.
PlanPathWithContext(e, status, waypoints, end) ==
    /\ nav[e].pc = "planning"
    /\ UNCHANGED <<goalVars, scanVars, memVars, interrupt, currentPath, hasLastPosition,
                   stuckDetection, pathHistory, paths>>
    /\ IF status = "rejected"
       THEN nav' = [nav EXCEPT ![e] = [@ EXCEPT !.pc = "done",
                                                !.status = status,
                                                !.outcome = "Failed to plan path"]]
       ELSE IF status = "success"
            THEN nav' = [nav EXCEPT ![e] = [@ EXCEPT !.pc = "planned",
                                                     !.status = status,
                                                     !.waypoints = waypoints,
                                                     !.end = end]]
            ELSE nav' = [nav EXCEPT ![e] = [@ EXCEPT !.pc = "planned",
                                                     !.status = status,
                                                     !.waypoints = 0]]

\* A catch block that rethrows without recording the failure.
RecordNoPath(history, start, end, message) == history

\* recordFailedPath: the entry pushed to this.pathHistory.
RecordFailedPath(history, start, end, message) ==
    Append(history, [start |-> start, end |-> end,
                     successful |-> FALSE, error |-> message])

\* The catch and finally blocks of executePathWithContext: recordFailedPath,
\* rethrow, clearInterval, currentPath = null.
RaiseFromExecute(e, message) ==
    /\ pathHistory' = RecordFailedPath(pathHistory, nav[e].start, nav[e].end,
                                       message)
    /\ nav' = [nav EXCEPT ![e] =
                 [@ EXCEPT !.pc = "done", !.outcome = message,
                           !.interruptedInFlight = FALSE,
                           !.progressMonitor = ClearInterval(TRUE, TRUE)]]
    /\ currentPath' = NoPath
    /\ UNCHANGED paths

\* recordSuccessfulPath followed by the finally block.
ReturnFromExecute(e) ==
    LET key == PathKey(FloorPos(nav[e].start), FloorPos(nav[e].end)) IN
        /\ pathHistory' = Append(pathHistory,
                                 [start |-> nav[e].start, end |-> nav[e].end,
                                  successful |-> TRUE, error |-> "none"])
        /\ paths' = RememberPath(paths, key, currentPath)
        /\ nav' = [nav EXCEPT ![e] =
                     [@ EXCEPT !.pc = "done", !.outcome = "success",
                               !.interruptedInFlight = FALSE,
                               !.progressMonitor = ClearInterval(TRUE, FALSE)]]
        /\ currentPath' = NoPath

\* executePathWithContext from its entry to the first await: the empty-path
\* check, currentPath, lastPosition, setInterval, and the interrupt check of
\* the first loop iteration.
ExecutePathWithContext(e) ==
    /\ nav[e].pc = "planned"
    /\ UNCHANGED <<goalVars, scanVars, memVars, interrupt, stuckDetection>>
    /\ IF nav[e].waypoints = 0
       THEN /\ nav' = [nav EXCEPT ![e] = [@ EXCEPT !.pc = "done",
                                                   !.outcome = "Invalid path provided"]]
            /\ UNCHANGED <<currentPath, hasLastPosition, pathHistory, paths>>
       ELSE /\ hasLastPosition' = TRUE
            /\ IF InterruptCheck(interrupt, 1)
               THEN RaiseFromExecute(e, "Navigation interrupted")
               ELSE /\ currentPath' = e
                    /\ nav' = [nav EXCEPT ![e] =
                                 [@ EXCEPT !.pc = "moving",
                                           !.checkpoint = 1,
                                           !.progressMonitor = TRUE,
                                           !.gotoMovements =
                                               Goto(Movements(nav[e].canDig))]]
                    /\ UNCHANGED <<pathHistory, paths>>

\* A verification that accepts every position.
OffCourseNever(distance) == FALSE

\* verifyAndUpdateContext: if (distance > 2) throw.
OffCourse(distance) == distance > Tolerance

\* moveToCheckpoint and verifyAndUpdateContext once goto settles: a rejected
\* goto and a position further than 2 from the checkpoint both raise.
\* interruptedInFlight remembers, until the loop head is reached, whether
\* bot.interrupt_code was set while the goto was pending.
MoveToCheckpoint(e, rejected, distance) ==
    /\ nav[e].pc = "moving"
    /\ UNCHANGED <<goalVars, scanVars, locations, regions, landmarks, interrupt,
                   hasLastPosition, stuckDetection>>
    /\ IF rejected
       THEN /\ RaiseFromExecute(e, "Failed to reach checkpoint")
            /\ UNCHANGED spatialContext
       ELSE IF OffCourse(distance)
            THEN /\ RaiseFromExecute(e, "Navigation verification failed: Off course")
                 /\ UNCHANGED spatialContext
            ELSE /\ nav' = [nav EXCEPT ![e] =
                              [@ EXCEPT !.pc = "verified",
                                        !.distance = distance,
                                        !.interruptedInFlight = interrupt]]
                 /\ spatialContext' = NewSpatialContext(FALSE)
                 /\ UNCHANGED <<currentPath, pathHistory, paths>>

\* The head of the checkpoint loop after a verified checkpoint: the loop
\* ends, or the interrupt flag is read and the next goto is issued.
NextCheckpoint(e) ==
    /\ nav[e].pc = "verified"
    /\ UNCHANGED <<goalVars, scanVars, memVars, interrupt, hasLastPosition,
                   stuckDetection>>
    /\ IF nav[e].checkpoint = NumCheckpoints(nav[e].waypoints,
                                             nav[e].checkpointInterval)
       THEN ReturnFromExecute(e)
       ELSE IF InterruptCheck(interrupt, nav[e].checkpoint + 1)
            THEN RaiseFromExecute(e, "Navigation interrupted")
            ELSE /\ nav' = [nav EXCEPT ![e] =
                              [@ EXCEPT !.pc = "moving",
                                        !.checkpoint = @ + 1,
                                        !.interruptedInFlight = FALSE,
                                        !.gotoMovements =
                                            Goto(Movements(nav[e].canDig))]]
                 /\ UNCHANGED <<currentPath, pathHistory, paths>>

\* A stuck hook that gives the navigation up.
HandleStuckStateAborts(path) == NoPath

\* handleStuckState: a warning on the console; this.currentPath is as it was.
HandleStuckState(path) == path

\* if (this.stuckDetection.stuckTime >= this.stuckDetection.stuckThreshold)
StuckThresholdReached(stuckTime) == stuckTime >= StuckThreshold

\* The interval callback of call e: updateNavigationProgress.
UpdateNavigationProgress(e, progress) ==
    /\ nav[e].progressMonitor
    /\ stuckDetection.stuckTime < MaxStuckTime
    /\ UNCHANGED <<goalVars, scanVars, memVars, interrupt, hasLastPosition,
                   pathHistory, paths, nav>>
    /\ IF currentPath = NoPath \/ ~hasLastPosition
       THEN UNCHANGED <<stuckDetection, currentPath>>
       ELSE IF progress = stuckDetection.lastProgress
            THEN LET stuckTime == stuckDetection.stuckTime + StuckIncrement IN
                     /\ stuckDetection' = [lastProgress |-> progress,
                                           stuckTime |-> stuckTime]
                     /\ currentPath' = IF StuckThresholdReached(stuckTime)
                                       THEN HandleStuckState(currentPath)
                                       ELSE currentPath
            ELSE /\ stuckDetection' = [lastProgress |-> progress,
                                       stuckTime |-> 0]
                 /\ UNCHANGED currentPath

\* Another part of the agent sets or clears bot.interrupt_code.
SetInterruptCode(code) ==
    /\ interrupt # code
    /\ interrupt' = code
    /\ UNCHANGED <<goalVars, scanVars, memVars, currentPath, hasLastPosition, stuckDetection,
                   pathHistory, paths, nav>>

NavNext ==
    \/ \E e \in Execs, start \in StartPositions, options \in NavOptions :
         MoveToLocation(e, start, options)
    \/ \E e \in Execs : PlanPathWithContext(e, "rejected", 0, 0)
    \/ \E e \in Execs, status \in NonSuccess :
         PlanPathWithContext(e, status, 0, 0)
    \/ \E e \in Execs, waypoints \in 0..MaxWaypoints, end \in EndPositions :
         PlanPathWithContext(e, "success", waypoints, end)
    \/ \E e \in Execs : ExecutePathWithContext(e)
    \/ \E e \in Execs, rejected \in BOOLEAN, distance \in Distances :
         MoveToCheckpoint(e, rejected, distance)
    \/ \E e \in Execs : NextCheckpoint(e)
    \/ \E e \in Execs, progress \in ProgressSamples :
         UpdateNavigationProgress(e, progress)
    \/ \E code \in BOOLEAN : SetInterruptCode(code)

NavSpec == Init /\ [][NavNext]_vars

\* ---------------------------------------------------------------------
\* EnhancedMemoryBank
\* ---------------------------------------------------------------------

\* The variables of the navigator that the memory bank does not touch.
navOnlyVars == <<interrupt, currentPath, hasLastPosition, stuckDetection,
                 pathHistory, nav>>

\* The names the callers store things under, and what they store.
Names == {"home", "mine"}
Stored == {1, 2}

\* table[name] = value
Put(table, name, value) ==
    [n \in DOMAIN table \cup {name} |-> IF n = name THEN value ELSE table[n]]

\* The instance as a record of its fields.
ThisBank ==
    [locations |-> locations, regions |-> regions, landmarks |-> landmarks,
     paths |-> paths, spatialContext |-> spatialContext]

\* new EnhancedMemoryBank()
FreshBank ==
    [locations |-> EmptyTable, regions |-> EmptyTable,
     landmarks |-> EmptyTable, paths |-> NoPaths,
     spatialContext |-> NoContext]

\* A property of a JSON object: undefined when the key is absent, null, or
\* an object with the given content.
Undefined == [kind |-> "undefined", value |-> EmptyTable]
Null == [kind |-> "null", value |-> EmptyTable]
Object(value) == [kind |-> "object", value |-> value]

\* if (json.x): undefined and null are falsy, every object is truthy.
Truthy(property) == property.kind = "object"

\* getJson
GetJson(bank) ==
    [locations |-> Object(bank.locations), regions |-> Object(bank.regions),
     landmarks |-> Object(bank.landmarks), paths |-> Object(bank.paths)]

\* A loadJson that restores the three named tables and not the paths.
LoadJsonWithoutPaths(bank, json) ==
    [bank EXCEPT
       !.locations = IF Truthy(json.locations) THEN json.locations.value ELSE @,
       !.regions = IF Truthy(json.regions) THEN json.regions.value ELSE @,
       !.landmarks = IF Truthy(json.landmarks) THEN json.landmarks.value ELSE @]

\* loadJson on an instance in state bank.
LoadJsonInto(bank, json) ==
    [bank EXCEPT
       !.locations = IF Truthy(json.locations) THEN json.locations.value ELSE @,
       !.regions = IF Truthy(json.regions) THEN json.regions.value ELSE @,
       !.landmarks = IF Truthy(json.landmarks) THEN json.landmarks.value ELSE @,
       !.paths = IF Truthy(json.paths) THEN json.paths.value ELSE @]

\* The JSON objects the callers load: {}, a partial one with a null, and one
\* with an empty table and a path.
JsonInputs ==
    {[locations |-> Undefined, regions |-> Undefined,
      landmarks |-> Undefined, paths |-> Undefined],
     [locations |-> Object(Put(EmptyTable, "home", 1)), regions |-> Undefined,
      landmarks |-> Null, paths |-> Null],
     [locations |-> Object(EmptyTable), regions |-> Undefined,
      landmarks |-> Object(Put(EmptyTable, "mine", 2)),
      paths |-> Object(RememberPath(NoPaths, PathKey(0, -1), NoPath))]}

RememberPlace(name, value) ==
    /\ locations' = Put(locations, name, value)
    /\ UNCHANGED <<goalVars, scanVars, navOnlyVars, paths, regions, landmarks,
                   spatialContext>>

DefineRegion(name, value) ==
    /\ regions' = Put(regions, name, value)
    /\ UNCHANGED <<goalVars, scanVars, navOnlyVars, paths, locations, landmarks,
                   spatialContext>>

AddLandmark(name, value) ==
    /\ landmarks' = Put(landmarks, name, value)
    /\ UNCHANGED <<goalVars, scanVars, navOnlyVars, paths, locations, regions,
                   spatialContext>>

RememberPathCall(from, to) ==
    /\ paths[PathKey(from, to)].useCount < MaxUseCount
    /\ paths' = RememberPath(paths, PathKey(from, to), NoPath)
    /\ UNCHANGED <<goalVars, scanVars, navOnlyVars, memVars>>

UpdateSpatialContext(scanData) ==
    /\ spatialContext' = NewSpatialContext(scanData)
    /\ UNCHANGED <<goalVars, scanVars, navOnlyVars, paths, locations, regions,
                   landmarks>>

LoadJson(json) ==
    LET loaded == LoadJsonInto(ThisBank, json) IN
        /\ locations' = loaded.locations
        /\ regions' = loaded.regions
        /\ landmarks' = loaded.landmarks
        /\ paths' = loaded.paths
        /\ spatialContext' = loaded.spatialContext
        /\ UNCHANGED <<goalVars, scanVars, navOnlyVars>>

MemNext ==
    \/ \E name \in Names, value \in Stored : RememberPlace(name, value)
    \/ \E name \in Names, value \in Stored : DefineRegion(name, value)
    \/ \E name \in Names, value \in Stored : AddLandmark(name, value)
    \/ \E k \in PathKeys : RememberPathCall(k[1], k[2])
    \/ \E scanData \in BOOLEAN : UpdateSpatialContext(scanData)
    \/ \E json \in JsonInputs : LoadJson(json)

MemSpec == Init /\ [][MemNext]_vars

\* ---------------------------------------------------------------------
\* EnvironmentScanner
\* ---------------------------------------------------------------------

\* What blockAt returns: "null" for no block, else the block's name.
BlockNames == {"stone", "dirt"}
ScannedValues == BlockNames \cup {"air", "null"}
AboveValues == {"air", "stone", "null"}

\* The worlds the scanner is run in.
Worlds ==
    {w \in [Cells -> ScannedValues] :
        \A cell \in Cells : cell[2] > 0 => w[cell] \in AboveValues}

\* this.bot.blockAt(new Vec3(x, y, z)) for the column of circle r at level
\* y: null where the world holds no block.
BlockAt(w, r, y) == IF <<r, y>> \in Cells THEN w[<<r, y>>] ELSE "null"

\* getDistance from the bot to the block of circle r at level y:
\* Math.sqrt(dx * dx + dy * dy + dz * dz), kept as the number under the root.
\* Math.sqrt is increasing, so distances compare as these numbers do.
GetDistance(r, y) == [sqrtOf |-> r * r + y * y]

\* An accessibility test that checks only the cell the bot would stand in.
IsAccessibleFeetOnly(w, h, r, y) ==
    IF BlockAt(w, r, y) = "null" THEN FALSE
    ELSE IF BlockAt(w, r, y + 1) = "null" \/ BlockAt(w, r, y + 2) = "null"
         THEN FALSE
    ELSE IF ~(BlockAt(w, r, y + 1) = "air") THEN FALSE
    ELSE BlockAt(w, r, y) \in h

\* isAccessible of the block of circle r at level y, in world w with the
\* harvest check accepting the names in h.
IsAccessible(w, h, r, y) ==
    IF BlockAt(w, r, y) = "null" THEN FALSE
    ELSE IF BlockAt(w, r, y + 1) = "null" \/ BlockAt(w, r, y + 2) = "null"
         THEN FALSE
    ELSE IF ~(BlockAt(w, r, y + 1) = "air" /\ BlockAt(w, r, y + 2) = "air")
         THEN FALSE
    ELSE BlockAt(w, r, y) \in h

\* environment.blocks[name].push(instance), creating the list when absent.
PushInstance(blocks, name, instance) ==
    IF \E k \in 1..Len(blocks) : blocks[k].name = name
    THEN [k \in 1..Len(blocks) |->
            IF blocks[k].name = name
            THEN [blocks[k] EXCEPT !.instances = Append(@, instance)]
            ELSE blocks[k]]
    ELSE Append(blocks, [name |-> name, instances |-> <<instance>>])

\* The column loop of scanCircle from level y up to center.y + heightRange:
\* air and missing blocks are skipped, every other block is pushed.
RECURSIVE ScanColumn(_, _, _, _, _)
ScanColumn(w, h, r, y, blocks) ==
    IF y > HeightRange THEN blocks
    ELSE IF BlockAt(w, r, y) \in {"null", "air"}
         THEN ScanColumn(w, h, r, y + 1, blocks)
         ELSE ScanColumn(w, h, r, y + 1,
                PushInstance(blocks, BlockAt(w, r, y),
                             [distance |-> GetDistance(r, y),
                              accessible |-> IsAccessible(w, h, r, y)]))

\* scanCircle for the circles from radius r on, in the order scan() walks
\* them; each column is walked from center.y - heightRange.
RECURSIVE ScanCircles(_, _, _, _)
ScanCircles(w, h, r, blocks) ==
    IF r > MaxRadius THEN blocks
    ELSE ScanCircles(w, h, r + 2, ScanColumn(w, h, r, 0 - HeightRange, blocks))

\* scan(): this.lastScan = environment.
Scan ==
    /\ lastScan' = [taken |-> TRUE,
                    blocks |-> ScanCircles(world, harvestable, 1, <<>>)]
    /\ UNCHANGED <<goalVars, navOnlyVars, paths, memVars, world, harvestable>>

\* instances.filter(b => b.accessible)
RECURSIVE FilterAccessible(_)
FilterAccessible(instances) ==
    IF instances = <<>> THEN <<>>
    ELSE IF Head(instances).accessible
         THEN <<Head(instances)>> \o FilterAccessible(Tail(instances))
         ELSE FilterAccessible(Tail(instances))

\* Math.min(...instances.map(b => b.distance))
Nearest(instances) ==
    [sqrtOf |-> MinOf({instances[k].distance.sqrtOf : k \in 1..Len(instances)})]

\* The entry getSummary pushes for a block name.
SummaryEntry(name, instances) ==
    [name |-> name, count |-> Len(instances), nearest |-> Nearest(instances)]

\* Array.prototype.sort((a, b) => a.nearest - b.nearest): stable, so an
\* entry goes after the entries that are not further than it.
RECURSIVE InsertByNearest(_, _)
InsertByNearest(entry, sorted) ==
    IF sorted = <<>> THEN <<entry>>
    ELSE IF Head(sorted).nearest.sqrtOf <= entry.nearest.sqrtOf
         THEN <<Head(sorted)>> \o InsertByNearest(entry, Tail(sorted))
         ELSE <<entry>> \o sorted

\* The lists left in insertion order.
Unsorted(entries) == entries

RECURSIVE SortByNearest(_)
SortByNearest(entries) ==
    IF entries = <<>> THEN <<>>
    ELSE InsertByNearest(entries[Len(entries)],
                         SortByNearest(SubSeq(entries, 1, Len(entries) - 1)))

\* The loop of getSummary over Object.entries(this.lastScan.blocks).
RECURSIVE AccessibleEntries(_)
AccessibleEntries(blocks) ==
    IF blocks = <<>> THEN <<>>
    ELSE LET accessible == FilterAccessible(Head(blocks).instances)
         IN  (IF Len(accessible) > 0
              THEN <<SummaryEntry(Head(blocks).name, accessible)>>
              ELSE <<>>) \o AccessibleEntries(Tail(blocks))

NearbyEntries(blocks) ==
    [k \in 1..Len(blocks) |-> SummaryEntry(blocks[k].name, blocks[k].instances)]

\* getSummary(): isNull stands for the null it returns before any scan.
GetSummary(scan) ==
    IF ~scan.taken
    THEN [isNull |-> TRUE, nearbyBlocks |-> <<>>, accessibleResources |-> <<>>]
    ELSE [isNull |-> FALSE,
          nearbyBlocks |-> SortByNearest(NearbyEntries(scan.blocks)),
          accessibleResources |-> SortByNearest(AccessibleEntries(scan.blocks))]

GetSummaryOfScan ==
    /\ GetSummary(lastScan).isNull = ~lastScan.taken
    /\ UNCHANGED vars

\* The scanner is constructed in any of the worlds, with any harvest check.
ScanInit ==
    /\ BaseInit
    /\ world \in Worlds
    /\ harvestable \in SUBSET BlockNames

ScanNext ==
    \/ Scan
    \/ GetSummaryOfScan

ScanSpec == ScanInit /\ [][ScanNext]_vars

(***************************************************************************)
(* Properties of the Goal Tracker.                                         *)
(***************************************************************************)
trackerVars == <<mainGoal, subGoals, completedGoals, failedGoals,
                 strategyAdaptations>>

\* goalId names the main goal or a subgoal of the collection.
Matches(goalId) ==
    \/ HasMain /\ mainGoal[1].id = goalId
    \/ \E k \in 1..Len(subGoals) : subGoals[k].id = goalId

\* goalId names a subgoal of the collection and not the main goal.
NamesSubGoal(goalId) ==
    /\ ~(HasMain /\ mainGoal[1].id = goalId)
    /\ \E k \in 1..Len(subGoals) : subGoals[k].id = goalId

\* The sum of the progress of the first k goals of sgs.
RECURSIVE SumOfFirst(_, _)
SumOfFirst(sgs, k) ==
    IF k = 0 THEN 0 ELSE sgs[k].progress + SumOfFirst(sgs, k - 1)

SumOfProgress(sgs) == SumOfFirst(sgs, Len(sgs))

InRange(p) == 0 <= p /\ p <= 100

Terminal(status) == status \in {"completed", "failed"}

\* C1: after any sequence of tracker operations the progress of the main
\* goal and of every subgoal of the collection is within [0,100].
C1_ProgressInRange ==
    /\ HasMain => InRange(mainGoal[1].progress)
    /\ \A k \in 1..Len(subGoals) : InRange(subGoals[k].progress)

\* C2: status is monotonic toward a terminal state: a step of
\* recordFailedAttempt, failGoal, completeGoal or updateGoalProgress never
\* gives a completed goal another status, and never gives a failed goal a
\* non-terminal status.
C2_StatusMonotonic ==
    [][\A i \in ArgIds, p \in ProgressInputs :
         ( /\ HasMain /\ mainGoal[1].id = i
           /\ \/ RecordFailedAttempt(i)
              \/ FailGoal(i)
              \/ CompleteGoal(i)
              \/ UpdateGoalProgress(i, p) )
         => /\ mainGoal[1].status = "completed" => mainGoal'[1].status = "completed"
            /\ mainGoal[1].status = "failed" => Terminal(mainGoal'[1].status)]_vars

\* The id does not resolve to a goal whose status is 'completed'.
NotCompleted(goalId) ==
    \/ ~Matches(goalId)
    \/ GoalAt(FindGoal(goalId)).status # "completed"

RefsOf(g) ==
    {g.prerequisites[k] : k \in 1..Len(g.prerequisites)}
        \cup {g.dependencies[k] : k \in 1..Len(g.dependencies)}

\* C3: canStartGoal is fail-closed: for every subgoal G it returns false
\* whenever some id of G's prerequisites or dependencies does not resolve to a
\* completed goal, ids that name no goal included.
C3_FailClosed ==
    \A k \in 1..Len(subGoals) :
        (\E r \in RefsOf(subGoals[k]) : NotCompleted(r))
            => CanStartGoal(subGoals[k].id) = "false"

\* The id is the id of a subgoal that was completed with completeGoal.
CompletedSubGoal(goalId) ==
    /\ goalId.kind = "subgoal"
    /\ \E k \in 1..Len(completedGoals) : completedGoals[k].id = goalId

\* C4: for a subgoal G whose prerequisite and dependency ids all name
\* subgoals that were added and then completed, canStartGoal(G) is true.
C4_StartableOnceCompleted ==
    \A k \in 1..Len(subGoals) :
        (\A r \in RefsOf(subGoals[k]) : CompletedSubGoal(r) /\ ~Matches(r))
            => CanStartGoal(subGoals[k].id) = "true"

\* C5: with a main goal set, immediately after updateGoalProgress on a
\* subgoal of the collection the main goal's progress is the floor of the
\* mean of the progress of all subgoals.
C5_MeanAfterUpdate ==
    [][\/ LET q == mainGoal'[1].progress
               n == Len(subGoals')
           IN  /\ HasMain'
               /\ n > 0
               /\ q * n <= SumOfProgress(subGoals')
               /\ SumOfProgress(subGoals') < (q + 1) * n
       \/ \A i \in SubIds, p \in ProgressInputs :
            ~(HasMain /\ NamesSubGoal(i) /\ UpdateGoalProgress(i, p))]_vars

\* Two subgoals at 45 and 0 and the main goal at floor(45 / 2).
C5_Witness ==
    /\ HasMain
    /\ Len(subGoals) = 2
    /\ subGoals[1].progress = 45
    /\ subGoals[2].progress = 0
    /\ mainGoal[1].progress = 22

\* C6: after completeGoal on a subgoal while other subgoals remain, the
\* completed subgoal still counts in the main-goal mean, as 100.
C6_CompletedCountsAsFull ==
    [][\A i \in ArgIds :
         (HasMain /\ NamesSubGoal(i) /\ CompleteGoal(i) /\ subGoals' # <<>>)
         => mainGoal'[1].progress =
                (100 + SumOfProgress(subGoals')) \div (Len(subGoals') + 1)]_vars

\* The number of adaptation records that reference the id.
AdaptationsOf(log, goalId) ==
    Cardinality({k \in 1..Len(log) : log[k].goalId = goalId})

\* C7: the 1st, 2nd and 3rd recordFailedAttempt on a goal leave its status
\* unchanged and no adaptation record references it; after the 4th its status
\* is 'needs_revision' and exactly one adaptation record references its id.
C7_RevisionAfterFourth ==
    [][\A i \in ArgIds :
         (Matches(i) /\ RecordFailedAttempt(i))
         => LET before == GoalAt(FindGoal(i))
                after == IF HasMain' /\ mainGoal'[1].id = i
                         THEN mainGoal'[1]
                         ELSE subGoals'[FindGoal(i).idx]
            IN  /\ after.attempts \in 1..3 =>
                    /\ after.status = before.status
                    /\ AdaptationsOf(strategyAdaptations', i) = 0
                /\ after.attempts = 4 =>
                    /\ after.status = "needs_revision"
                    /\ AdaptationsOf(strategyAdaptations', i) = 1]_vars

\* C8: no tracker operation raises, whatever id it is called with.
C8_NeverRaises ==
    \A i \in ArgIds :
        /\ CanStartGoal(i) # "TypeError"
        /\ ~GetPendingPrerequisites(i).raised

\* C9: updateGoalProgress, recordFailedAttempt, completeGoal and failGoal
\* with an id that matches neither the main goal nor a subgoal of the
\* collection leave the whole tracker state unchanged.
C9_UnknownIdNoOp ==
    [][\/ UNCHANGED trackerVars
       \/ \A i \in ArgIds :
            \/ Matches(i)
            \/ ~(\/ \E p \in ProgressInputs : UpdateGoalProgress(i, p)
                 \/ RecordFailedAttempt(i)
                 \/ CompleteGoal(i)
                 \/ FailGoal(i))]_vars

\* A populated tracker in which an id of the callers names no goal.
C9_Witness ==
    /\ HasMain
    /\ Len(subGoals) = 2
    /\ completedGoals # <<>>
    /\ strategyAdaptations # <<>>
    /\ \E i \in ArgIds :
         /\ ~Matches(i)
         /\ ENABLED (CompleteGoal(i) /\ UNCHANGED trackerVars)
         /\ ENABLED (RecordFailedAttempt(i) /\ UNCHANGED trackerVars)

\* The ways executePathWithContext ends once its timer has been created.
ExecuteExits == {"success", "Failed to reach checkpoint",
                 "Navigation verification failed: Off course",
                 "Navigation interrupted"}

\* C10: on every exit path of executePathWithContext (success, movement
\* failure, course deviation, interruption) the monitor timer of that
\* execution is cancelled and currentPath is null when the call ends; no
\* timer of an execution is scheduled once the execution has ended.
C10_TimerCancelledOnExit ==
    [][\A e \in Execs :
         /\ nav'[e].pc = "done" => ~nav'[e].progressMonitor
         /\ (nav[e].pc # "done" /\ nav'[e].pc = "done"
               /\ nav'[e].outcome \in ExecuteExits)
              => currentPath' = NoPath]_vars

\* Both calls have ended after creating a timer, one by returning and one by
\* raising after a verified checkpoint, and a monitor sample has been taken.
C10_Witness ==
    /\ \E e \in Execs : nav[e].pc = "done" /\ nav[e].outcome = "success"
    /\ \E e \in Execs : /\ nav[e].pc = "done"
                        /\ nav[e].outcome \in ExecuteExits \ {"success"}
                        /\ nav[e].checkpoint = 2
    /\ stuckDetection.stuckTime > 0

\* The coordinate p, in tenths, lies in the block cell c: floor(p) = c.
InCell(p, c) == c * 10 <= p /\ p < c * 10 + 10

\* The successful runs of the history between the cells a and b.
RunsBetween(a, b) ==
    Cardinality({k \in 1..Len(pathHistory) :
                    /\ pathHistory[k].successful
                    /\ InCell(pathHistory[k].start, a)
                    /\ InCell(pathHistory[k].end, b)})

\* The use-count the path cache holds under the key a->b, 0 when absent.
UseCountAt(a, b) ==
    IF <<a, b>> \in DOMAIN paths THEN paths[<<a, b>>].useCount ELSE 0

\* C11: each successful moveToLocation upserts one record under the key
\* floor(start)->floor(end) and no other, and after the k-th successful run
\* between the same floored endpoints the use-count of that record is k.
C11_UseCountIsRunCount ==
    \A a \in -1..1, b \in -1..1 : UseCountAt(a, b) = RunsBetween(a, b)

\* Two successful runs from different positions of the same cell to the
\* same end cell, below zero, share one record with use-count 2.
C11_Witness ==
    /\ Len(pathHistory) = 2
    /\ pathHistory[1].successful /\ pathHistory[2].successful
    /\ pathHistory[1].start # pathHistory[2].start
    /\ pathHistory[1].end = -5 /\ pathHistory[2].end = -5
    /\ paths[<<0, -1>>].useCount = 2

\* The other calls have all ended or have not been made.
OnlyCall(e) == \A o \in Execs \ {e} : nav[o].pc \in {"idle", "done"}

\* C12: when the path search reports a non-success status, moveToLocation
\* raises the planning error, and afterwards currentPath is null, the call
\* has no monitor timer and the path cache is unchanged.
C12_NoPathRaisesPlanningError ==
    [][\A e \in Execs :
         (nav[e].status \in NonSuccess /\ nav[e].pc # "done"
            /\ nav'[e].pc = "done")
         => /\ nav'[e].outcome = "Failed to plan path"
            /\ ~nav'[e].progressMonitor
            /\ paths' = paths
            /\ OnlyCall(e) => currentPath' = NoPath]_vars

\* Call e is at the head of the loop iteration of a checkpoint of its plan.
AtBoundary(e) ==
    \/ nav[e].pc = "planned" /\ nav[e].waypoints > 0
    \/ /\ nav[e].pc = "verified"
       /\ nav[e].checkpoint < NumCheckpoints(nav[e].waypoints,
                                             nav[e].checkpointInterval)

\* C13: if the interrupt flag is set when the loop reaches the boundary
\* before checkpoint k, the execution raises the interruption error without
\* issuing the move to checkpoint k, writes nothing to the path cache, and
\* its monitor timer is cancelled.
C13_InterruptAtBoundary ==
    [][\A e \in Execs :
         (interrupt /\ AtBoundary(e) /\ nav'[e] # nav[e])
         => /\ nav'[e].pc = "done"
            /\ nav'[e].outcome = "Navigation interrupted"
            /\ nav'[e].checkpoint = nav[e].checkpoint
            /\ ~nav'[e].progressMonitor
            /\ paths' = paths]_vars

\* A call was interrupted after its first checkpoint of two, with the flag
\* still set and nothing in the path cache.
C13_Witness ==
    \E e \in Execs :
        /\ nav[e].pc = "done"
        /\ nav[e].outcome = "Navigation interrupted"
        /\ nav[e].checkpoint = 1
        /\ NumCheckpoints(nav[e].waypoints, nav[e].checkpointInterval) = 2
        /\ interrupt
        /\ \A k \in DOMAIN paths : paths[k].useCount = 0

\* The three kinds of error the interface of moveToLocation names.
ThreeKinds == {"Failed to plan path",
               "Navigation verification failed: Off course",
               "Navigation interrupted"}

\* C14: every error raised by moveToLocation is a planning error, a
\* verification error or an interruption error, a failed checkpoint move and
\* an empty plan included.
C14_ThreeErrorKinds ==
    \A e \in Execs :
        (nav[e].pc = "done" /\ nav[e].outcome # "success")
            => nav[e].outcome \in ThreeKinds

\* C15: every execution that ends with an error after entering the
\* checkpoint loop appends exactly one failed-attempt record, with its start,
\* end and error message, to the history and leaves the path cache unchanged.
C15_FailureRecordedOnce ==
    [][\A e \in Execs :
         (nav[e].pc # "done" /\ nav'[e].pc = "done"
            /\ nav'[e].outcome \in ExecuteExits \ {"success"})
         => /\ Len(pathHistory') = Len(pathHistory) + 1
            /\ SubSeq(pathHistory', 1, Len(pathHistory)) = pathHistory
            /\ pathHistory'[Len(pathHistory')] =
                 [start |-> nav[e].start, end |-> nav[e].end,
                  successful |-> FALSE, error |-> nav'[e].outcome]
            /\ paths' = paths]_vars

\* Two executions failed in the loop, one on the move and one on the
\* course check; the history holds both and the path cache is empty.
C15_Witness ==
    /\ Len(pathHistory) = 2
    /\ {pathHistory[1].error, pathHistory[2].error} =
         {"Failed to reach checkpoint",
          "Navigation verification failed: Off course"}
    /\ \A e \in Execs : nav[e].pc = "done"
    /\ \A k \in DOMAIN paths : paths[k].useCount = 0

\* C16: for every reachable memory state m, loadJson(m.getJson()) on a fresh
\* instance gives locations, regions, landmarks and paths equal to m's and
\* does not restore the spatial context; a key absent from the loaded JSON
\* leaves its table unchanged.
C16_SnapshotRoundTrip ==
    /\ LET restored == LoadJsonInto(FreshBank, GetJson(ThisBank))
       IN  /\ restored.locations = locations
           /\ restored.regions = regions
           /\ restored.landmarks = landmarks
           /\ restored.paths = paths
           /\ restored.spatialContext = NoContext
    /\ \A json \in JsonInputs :
         LET loaded == LoadJsonInto(ThisBank, json)
         IN  /\ json.locations = Undefined => loaded.locations = locations
             /\ json.regions = Undefined => loaded.regions = regions
             /\ json.landmarks = Undefined => loaded.landmarks = landmarks
             /\ json.paths = Undefined => loaded.paths = paths

\* All four tables hold something, one of them loaded from JSON, and a
\* spatial context has been taken.
C16_Witness ==
    /\ DOMAIN locations = Names
    /\ regions # EmptyTable
    /\ landmarks = Put(EmptyTable, "mine", 2)
    /\ paths[PathKey(0, -1)].useCount = 2
    /\ paths[PathKey(0, 0)].useCount = 1
    /\ spatialContext.known

\* The list is in ascending order of nearest distance.
AscendingByNearest(entries) ==
    \A j \in 1..Len(entries), k \in 1..Len(entries) :
        j < k => entries[j].nearest.sqrtOf <= entries[k].nearest.sqrtOf

\* C17: getSummary returns null when no scan has been taken; otherwise both
\* of its lists are sorted ascending by nearest distance, and every block type
\* of the accessible-resource list is in the full block list with accessible
\* count <= full count and accessible nearest >= full nearest.
C17_SummarySortedSubset ==
    LET summary == GetSummary(lastScan) IN
        /\ ~lastScan.taken => summary.isNull
        /\ lastScan.taken =>
             /\ ~summary.isNull
             /\ AscendingByNearest(summary.nearbyBlocks)
             /\ AscendingByNearest(summary.accessibleResources)
             /\ \A j \in 1..Len(summary.accessibleResources) :
                  \E k \in 1..Len(summary.nearbyBlocks) :
                      /\ summary.nearbyBlocks[k].name =
                           summary.accessibleResources[j].name
                      /\ summary.accessibleResources[j].count <=
                           summary.nearbyBlocks[k].count
                      /\ summary.accessibleResources[j].nearest.sqrtOf >=
                           summary.nearbyBlocks[k].nearest.sqrtOf

\* A scan found stone at distance 1 and, two levels above it, at sqrt(5)
\* (neither accessible), dirt at 3 and stone at 5 (both accessible): the
\* accessible list is reordered by the sort.
C17_Witness ==
    /\ lastScan.taken
    /\ GetSummary(lastScan).nearbyBlocks =
         <<[name |-> "stone", count |-> 3, nearest |-> [sqrtOf |-> 1]],
           [name |-> "dirt", count |-> 1, nearest |-> [sqrtOf |-> 9]]>>
    /\ GetSummary(lastScan).accessibleResources =
         <<[name |-> "dirt", count |-> 1, nearest |-> [sqrtOf |-> 9]],
           [name |-> "stone", count |-> 1, nearest |-> [sqrtOf |-> 25]]>>
    /\ lastScan.blocks[1].instances[2].distance = [sqrtOf |-> 5]

\* C18: isAccessible(block) is false whenever one of the two cells above the
\* block is non-air or missing, whatever the harvest check says; it is true
\* only if both cells are air and the held tool can harvest the block.
C18_AccessibleNeedsHeadroom ==
    \A r \in Radii, y \in (0 - HeightRange)..HeightRange :
        /\ (BlockAt(world, r, y + 1) # "air" \/ BlockAt(world, r, y + 2) # "air")
              => ~IsAccessible(world, harvestable, r, y)
        /\ IsAccessible(world, harvestable, r, y)
              => /\ BlockAt(world, r, y + 1) = "air"
                 /\ BlockAt(world, r, y + 2) = "air"
                 /\ BlockAt(world, r, y) \in harvestable

\* A scanned world with a harvestable block that has headroom, one whose
\* head cell is blocked and one whose standing cell is missing.
C18_Witness ==
    /\ lastScan.taken
    /\ harvestable = BlockNames
    /\ world[<<1, 0>>] = "stone" /\ world[<<1, 1>>] = "air"
    /\ world[<<1, 2>>] = "air"
    /\ IsAccessible(world, harvestable, 1, 0)
    /\ world[<<3, 0>>] = "stone" /\ world[<<3, 1>>] = "air"
    /\ world[<<3, 2>>] = "stone"
    /\ world[<<5, 0>>] = "dirt" /\ world[<<5, 1>>] = "null"
    /\ lastScan.blocks[1].instances =
         <<[distance |-> [sqrtOf |-> 1], accessible |-> TRUE],
           [distance |-> [sqrtOf |-> 9], accessible |-> FALSE],
           [distance |-> [sqrtOf |-> 13], accessible |-> FALSE]>>

\* C19: planPathWithContext raises the planning error whenever the path
\* search reports a status other than success or throws; it never returns a
\* plan in those cases.
C19_PlanningFailsOnNonSuccess ==
    [][\A e \in Execs :
         (nav[e].pc = "planning" /\ nav'[e].pc # "planning"
            /\ nav'[e].status # "success")
         => /\ nav'[e].pc = "done"
            /\ nav'[e].outcome = "Failed to plan path"]_vars

\* C20: when the last subgoal of the collection leaves it through
\* completeGoal or failGoal, the main goal's progress is 100 right after the
\* call.
C20_SnapsToFullWhenAllLeft ==
    [][\A i \in SubIds :
         (/\ HasMain /\ NamesSubGoal(i)
          /\ subGoals' = <<>>
          /\ CompleteGoal(i) \/ FailGoal(i))
         => mainGoal'[1].progress = 100]_vars

\* C21: the stuck-detection state is reset to its initial values at the
\* start of every moveToLocation call, so stuck time accumulated in one
\* navigation never carries over into the next.
C21_StuckResetAtStart ==
    [][\A e \in Execs :
         (nav[e].pc = "idle" /\ nav'[e].pc = "planning")
         => stuckDetection' = [lastProgress |-> 0, stuckTime |-> 0]]_vars

\* C22: on each monitor sample of an execution, a progress change below
\* epsilon makes the stuck accumulator grow by exactly the sample interval
\* configured for the execution (options.updateInterval), any other change
\* resets it to zero.
C22_StuckGrowsBySampleInterval ==
    [][\A e \in Execs, p \in ProgressSamples :
         (/\ currentPath # NoPath /\ hasLastPosition
          /\ UpdateNavigationProgress(e, p))
         => stuckDetection'.stuckTime =
              IF p = stuckDetection.lastProgress
              THEN stuckDetection.stuckTime + nav[e].updateInterval
              ELSE 0]_vars

\* C23: checkpoints are moved to strictly in plan order, each one verified
\* within 2 units before the move to the next one starts; the first failed
\* move or failed verification ends the execution with an error, and an
\* ended execution issues no further move.
C23_CheckpointsInOrderVerified ==
    [][\A e \in Execs :
         /\ nav'[e].checkpoint # nav[e].checkpoint
            => \/ nav[e].pc = "planned" /\ nav'[e].checkpoint = 1
               \/ /\ nav[e].pc = "verified"
                  /\ nav[e].distance <= Tolerance
                  /\ nav'[e].checkpoint = nav[e].checkpoint + 1
         /\ nav'[e].pc = "moving" => nav[e].pc \in {"planned", "verified", "moving"}
         /\ (nav[e].pc = "moving" /\ nav'[e] # nav[e])
            => \/ nav'[e].pc = "verified" /\ nav'[e].distance <= Tolerance
               \/ /\ nav'[e].pc = "done"
                  /\ nav'[e].outcome \in
                       {"Failed to reach checkpoint",
                        "Navigation verification failed: Off course"}
         /\ nav[e].pc = "done" => nav'[e] = nav[e]]_vars

\* A call has had its first checkpoint verified and is moving to its second
\* while the other call was stopped by a failure at its first checkpoint.
C23_Witness ==
    \E e, o \in Execs :
        /\ nav[e].pc = "moving" /\ nav[e].checkpoint = 2
        /\ nav[e].distance = Tolerance
        /\ nav[o].pc = "done" /\ nav[o].checkpoint = 1
        /\ nav[o].outcome = "Navigation verification failed: Off course"

\* C24: if the interrupt flag is set while a checkpoint move of an execution
\* was in flight and is still set when that move has finished, the
\* execution starts no further move and ends with the interruption error,
\* never in success.
C24_InterruptEndsExecution ==
    [][\A e \in Execs :
         (/\ nav[e].pc = "verified" /\ nav[e].interruptedInFlight
          /\ interrupt /\ nav'[e] # nav[e])
         => /\ nav'[e].pc = "done"
            /\ nav'[e].outcome = "Navigation interrupted"]_vars

\* C25: a monitor sample (a step that updates the stuck-detection
\* bookkeeping), wherever it falls in the checkpoint loop, changes neither
\* currentPath, nor any call's position in its loop or its outcome, nor the
\* execution history, nor Spatial Memory, also when the stuck hook fires.
C25_MonitorTouchesOnlyBookkeeping ==
    [][stuckDetection' # stuckDetection
       => UNCHANGED <<currentPath, nav, pathHistory, paths, memVars,
                      interrupt>>]_vars

\* The stuck hook has fired for an execution that is still moving.
C25_Witness ==
    /\ stuckDetection.stuckTime >= StuckThreshold
    /\ currentPath # NoPath
    /\ \E e \in Execs : nav[e].pc = "moving" /\ nav[e].checkpoint = 2

\* Call o starts executing in this step while call e is in flight.
SecondStarts(e, o) ==
    /\ e # o
    /\ nav[e].progressMonitor
    /\ nav[o].pc = "planned" /\ nav'[o].pc = "moving"

\* Call e, the first of two overlapping executions, ends in this step while
\* call o, which replaced the tracked path, is still in flight.
FirstEnds(e, o) ==
    /\ e # o
    /\ nav[e].progressMonitor /\ nav[o].progressMonitor
    /\ currentPath = o
    /\ nav[e].pc # "done" /\ nav'[e].pc = "done"

\* C26 as stated: when a second moveToLocation starts executing while a first
\* execution is in flight, the second replaces the tracked currentPath and
\* the first execution's monitor timer is still scheduled after the first
\* execution has ended.
C26_FirstTimerOrphaned ==
    [][\A e, o \in Execs :
         /\ SecondStarts(e, o) => currentPath' = o
         /\ FirstEnds(e, o) => nav'[e].progressMonitor]_vars

\* C26, amended: the second execution replaces the tracked currentPath; the
\* first execution's monitor timer is cancelled by the first execution's own
\* cleanup when it ends, and that cleanup sets currentPath to null while the
\* second execution is still in flight with its timer scheduled.
C26_FirstTimerCancelled ==
    [][\A e, o \in Execs :
         /\ SecondStarts(e, o) => currentPath' = o
         /\ FirstEnds(e, o)
            => /\ ~nav'[e].progressMonitor
               /\ nav'[o].progressMonitor
               /\ currentPath' = NoPath]_vars

\* The first of two overlapping executions has ended by raising after its
\* first checkpoint; the second is still moving, its timer scheduled, and
\* the tracked path is null.
C26_Witness ==
    \E e, o \in Execs :
        /\ e # o
        /\ nav[e].pc = "done" /\ nav[e].checkpoint = 2
        /\ nav[e].outcome = "Failed to reach checkpoint"
        /\ ~nav[e].progressMonitor
        /\ nav[o].pc = "moving" /\ nav[o].progressMonitor
        /\ currentPath = NoPath

\* C27: the may-dig constraint of the caller's options is the one in effect
\* for every per-checkpoint move sent to the pathfinder, and it is the one
\* the route search of the same call was given.
C27_MoveUsesCallerConstraints ==
    \A e \in Execs :
        nav[e].pc = "moving"
        => /\ nav[e].gotoMovements = Movements(nav[e].canDig)
           /\ nav[e].gotoMovements = nav[e].searchMovements

\* The index, from 0, of the waypoint that is the last checkpoint of a plan.
LastCheckpointIndex(waypoints, checkpointInterval) ==
    (NumCheckpoints(waypoints, checkpointInterval) - 1) * checkpointInterval

\* C28: whenever moveToLocation returns success, the last checkpoint moved
\* to and verified is the final waypoint of the plan, for every waypoint
\* count and checkpoint interval.
C28_SuccessVerifiedAtRouteEnd ==
    \A e \in Execs :
        (nav[e].pc = "done" /\ nav[e].outcome = "success")
        => LastCheckpointIndex(nav[e].waypoints, nav[e].checkpointInterval)
             = nav[e].waypoints - 1

\* C29: under any interleaving of moveToLocation calls, currentPath is
\* non-null whenever some execution is between starting its monitor timer
\* and running its cleanup.
C29_PathTrackedWhileExecuting ==
    (\E e \in Execs : nav[e].progressMonitor) => currentPath # NoPath

\* C30: in every reachable tracker state no goal of the subgoal collection
\* has status 'completed' or 'failed'; completeGoal and failGoal remove the
\* subgoal in the step that sets the terminal status, so every subgoal of
\* the collection is 'pending' or 'needs_revision'.
C30_NoTerminalSubGoalKept ==
    \A k \in 1..Len(subGoals) :
        /\ ~Terminal(subGoals[k].status)
        /\ subGoals[k].status \in {"pending", "needs_revision"}

\* A subgoal has been completed and is gone from the collection, which
\* still holds a subgoal marked for revision.
C30_Witness ==
    /\ \E k \in 1..Len(completedGoals) :
         /\ completedGoals[k].id.kind = "subgoal"
         /\ completedGoals[k].status = "completed"
         /\ \A j \in 1..Len(subGoals) : subGoals[j].id # completedGoals[k].id
    /\ \E j \in 1..Len(subGoals) : subGoals[j].status = "needs_revision"

\* C31: subgoal ids are unique: after any interleaving of addSubGoal,
\* completeGoal and failGoal, also within one clock millisecond, no two
\* subgoals of the collection share an id.
C31_SubGoalIdsUnique ==
    \A j, k \in 1..Len(subGoals) :
        j # k => subGoals[j].id # subGoals[k].id

\* C32: no goal id occurs more than once across the completedGoals and
\* failedGoals lists combined: a goal is recorded as finished at most once
\* and never as both completed and failed.
C32_FinishedAtMostOnce ==
    LET finished == completedGoals \o failedGoals IN
        \A j, k \in 1..Len(finished) :
            j # k => finished[j].id # finished[k].id

\* max(0, attempts - 3)
AttemptsBeyondThreshold(attempts) ==
    IF attempts > AttemptThreshold THEN attempts - AttemptThreshold ELSE 0

\* C33: for every goal that findGoal resolves by its id, the number of
\* strategyAdaptations records referencing the id equals
\* max(0, attempts - 3).
C33_AdaptationsMatchAttempts ==
    /\ HasMain
       => AdaptationsOf(strategyAdaptations, mainGoal[1].id)
            = AttemptsBeyondThreshold(mainGoal[1].attempts)
    /\ \A k \in 1..Len(subGoals) :
         (FindGoal(subGoals[k].id).found /\ ~FindGoal(subGoals[k].id).main
            /\ FindGoal(subGoals[k].id).idx = k)
         => AdaptationsOf(strategyAdaptations, subGoals[k].id)
              = AttemptsBeyondThreshold(subGoals[k].attempts)

============================================================================
